---- MODULE Spec2Model ----
(***************************************************************************)
(* Chadorkart Inventory & Sales dashboard (src/app.py).                    *)
(*                                                                         *)
(* The Streamlit script is re-run from top to bottom after every widget    *)
(* interaction.  The state is the two file uploaders, the metric selector, *)
(* the st.cache_data memo of process_data and the tables the last run of   *)
(* the script rendered.                                                    *)
(*                                                                         *)
(* Text cells are sequences of one-character strings, so that split,       *)
(* strip, upper and contains are computed and not assumed.  A missing cell *)
(* (pandas NaN) is the value NaN.  A timestamp cell is <<"ts", day, hour>> *)
(* when pandas can parse it; a price cell is <<"num", n>> when it is a     *)
(* number.  Column headers are plain strings.                              *)
(***************************************************************************)
EXTENDS Integers, Sequences, FiniteSets, TLC

VARIABLES
    disk_inv,       \* inventory CSV files the user can browse to
    disk_sales,     \* sales CSV files the user can browse to
    inv_file,       \* col_u1.file_uploader value (None until a file is chosen)
    sales_file,     \* col_u2.file_uploader value
    metric_choice,  \* st.segmented_control value
    pc,             \* "idle": page rendered; "rerun": script starts; "dashboard": after line 72
    cache,          \* st.cache_data memo: <<inv_file, sales_file>> -> result of process_data
    ran_body,       \* whether the last call of process_data executed its body
    ret,            \* what the last call of process_data returned
    page            \* what the last complete run of the script rendered

vars == <<disk_inv, disk_sales, inv_file, sales_file, metric_choice, pc, cache, ran_body, ret, page>>

\* ------------------------------------------------------------------ bounds

MaxRows == 2

MaxInvRows == 2

\* ------------------------------------------------------------------ cells

None == [none |-> TRUE]

NaN == <<"NaN">>

NaT == <<"NaT", 0, 0>>

NanStr == <<"n", "a", "n">>

\* Series.astype(str): a missing cell becomes the text "nan"
AsStr(x) == IF x = NaN THEN NanStr ELSE x

Whitespace == {" "}

LowerCase == <<"a","b","c","d","e","f","g","h","i","j","k","l","m","n","o","p","q","r","s","t","u","v","w","x","y","z">>

UpperCase == <<"A","B","C","D","E","F","G","H","I","J","K","L","M","N","O","P","Q","R","S","T","U","V","W","X","Y","Z">>

UpperChar(c) ==
    IF \E i \in 1..Len(LowerCase) : LowerCase[i] = c
    THEN UpperCase[CHOOSE i \in 1..Len(LowerCase) : LowerCase[i] = c]
    ELSE c

\* str.upper()
Upper(s) == [i \in 1..Len(s) |-> UpperChar(s[i])]

\* str.replace(a, b, regex=False) for one-character a and b
Replace(s, a, b) == [i \in 1..Len(s) |-> IF s[i] = a THEN b ELSE s[i]]

RECURSIVE LStrip(_)
LStrip(s) == IF s # <<>> /\ Head(s) \in Whitespace THEN LStrip(Tail(s)) ELSE s

RECURSIVE RStrip(_)
RStrip(s) ==
    IF s # <<>> /\ s[Len(s)] \in Whitespace THEN RStrip(SubSeq(s, 1, Len(s) - 1)) ELSE s

\* str.strip()
Strip(s) == RStrip(LStrip(s))

\* str.split(sep): "a,,b" gives "a", "", "b"; "" gives one empty token
RECURSIVE SplitFrom(_, _, _)
SplitFrom(s, sep, cur) ==
    IF s = <<>> THEN <<cur>>
    ELSE IF Head(s) = sep THEN <<cur>> \o SplitFrom(Tail(s), sep, <<>>)
    ELSE SplitFrom(Tail(s), sep, Append(cur, Head(s)))

Split(s, sep) == SplitFrom(s, sep, <<>>)

\* str.startswith(p)
StartsWith(s, p) == Len(s) >= Len(p) /\ SubSeq(s, 1, Len(p)) = p

\* str.count(c) for a one-character c
Count(s, c) == Cardinality({i \in 1..Len(s) : s[i] = c})

\* str.contains(sub): sub occurs somewhere in s
Contains(s, sub) ==
    \E i \in 1..(Len(s) - Len(sub) + 1) : SubSeq(s, i, i + Len(sub) - 1) = sub

\* faulty variant: a cell that does not parse becomes the epoch and not NaT
ToDatetimeEpoch(c) == IF c[1] = "ts" THEN c ELSE <<"ts", 0, 0>>

\* pd.to_datetime(errors="coerce")
ToDatetime(c) == IF c[1] = "ts" THEN c ELSE NaT

\* Series.dt.date: the time of day is dropped
DtDate(t) == IF t = NaT THEN NaT ELSE <<"date", t[2], 0>>

\* pd.to_numeric(errors="coerce").fillna(0)
ToNumericFillna0(c) == IF c[1] = "num" THEN c[2] ELSE 0

\* ------------------------------------------------------------------ sequences

RECURSIVE Flatten(_)
Flatten(ss) == IF ss = <<>> THEN <<>> ELSE Head(ss) \o Flatten(Tail(ss))

\* sum of a sequence of integers
RECURSIVE SumSeq(_)
SumSeq(s) == IF s = <<>> THEN 0 ELSE Head(s) + SumSeq(Tail(s))

\* sum of f over the set S
RECURSIVE SumOver(_, _)
SumOver(f, S) ==
    IF S = {} THEN 0
    ELSE LET x == CHOOSE y \in S : TRUE IN f[x] + SumOver(f, S \ {x})

\* ------------------------------------------------------------------ process_data

\* Index.str.strip() on the headers the files use
StripHeader(h) ==
    CASE h = " Order ID" -> "Order ID"
      [] h = "Status " -> "Status"
      [] h = " Sku Code " -> "Sku Code"
      [] OTHER -> h

\* df.columns = df.columns.str.strip(): every row is re-keyed by the stripped header
StripColumns(rows) ==
    [i \in 1..Len(rows) |->
        [c \in {StripHeader(h) : h \in DOMAIN rows[i]} |->
            rows[i][CHOOSE h \in DOMAIN rows[i] : StripHeader(h) = c]]]

possible_order_cols == <<"Order #", "Order Number", "Order ID", "Order Code">>

\* next((c for c in possible_order_cols if c in sales.columns), "Order #")
OrderIdCol(columns) ==
    IF \E i \in 1..Len(possible_order_cols) : possible_order_cols[i] \in columns
    THEN possible_order_cols[CHOOSE i \in 1..Len(possible_order_cols) :
            /\ possible_order_cols[i] \in columns
            /\ \A j \in 1..(i - 1) : possible_order_cols[j] \notin columns]
    ELSE "Order #"

\* "Order Status" if "Order Status" in sales.columns else "Status"
StatusCol(columns) == IF "Order Status" \in columns THEN "Order Status" ELSE "Status"

MaxSkuLen == 20

VofPrefix == <<"v", "o", "f", "-">>

\* faulty variant: one hyphen is already too many (>= 1 for > 1)
is_corrupted_sku_one_hyphen(sku) ==
    \/ StartsWith(AsStr(sku), VofPrefix)
    \/ Count(AsStr(sku), "-") >= 1
    \/ Len(AsStr(sku)) > MaxSkuLen

is_corrupted_sku(sku) ==
    \/ StartsWith(AsStr(sku), VofPrefix)
    \/ Count(AsStr(sku), "-") > 1
    \/ Len(AsStr(sku)) > MaxSkuLen

\* .astype(str).str.replace("|", ",", regex=False).str.split(",")
SkuTokens(cell) == Split(Replace(AsStr(cell), "|", ","), ",")

\* sales.explode("Seller SKUs") followed by .astype(str).str.strip(): one row per
\* token, every other column and the index label of the line repeated
Explode(rows) ==
    Flatten([i \in 1..Len(rows) |->
        LET tokens == SkuTokens(rows[i]["Seller SKUs"]) IN
        [j \in 1..Len(tokens) |->
            [rows[i] EXCEPT !["Seller SKUs"] = Strip(AsStr(tokens[j]))]]])

\* the lambda of sales.apply(..., axis=1) followed by .astype(str).str.strip()
FinalSku(row) ==
    Strip(AsStr(IF is_corrupted_sku(row["Seller SKUs"])
                THEN row["Products"]
                ELSE row["Seller SKUs"]))

WithFinalSku(rows) == [i \in 1..Len(rows) |-> ("Final SKU" :> FinalSku(rows[i])) @@ rows[i]]

HasFinalSku(row) == row["Final SKU"] # <<>>

\* faulty variant: the rows with an empty finalSku are kept
KeepEmptyFinalSku(rows) == rows

\* sales = sales[sales["Final SKU"] != ""]
DropEmptyFinalSku(rows) == SelectSeq(rows, HasFinalSku)

\* the body of process_data; "index" is the DataFrame index label read_csv gave the line
process_data_body(inv_f, sales_f) ==
    LET inv == StripColumns(inv_f.rows)
        sales0 == StripColumns(sales_f.rows)
        columns == {StripHeader(h) : h \in sales_f.columns}
        order_id_col == OrderIdCol(columns)
        sales1 == [i \in 1..Len(sales0) |->
                     ("index" :> i) @@
                     [sales0[i] EXCEPT !["Uniware Created At"] = ToDatetime(@)]]
        sales2 == DropEmptyFinalSku(WithFinalSku(Explode(sales1)))
        status_col == StatusCol(columns)
        sales3 == [i \in 1..Len(sales2) |->
                     [sales2[i] EXCEPT ![status_col] = Upper(AsStr(@))]]
    IN  [inv |-> inv, sales |-> sales3, order_id_col |-> order_id_col, status_col |-> status_col]

\* faulty variant: the memo holds the last result alone
CacheStoreLastOnly(memo, key, value) == (key :> value)

\* @st.cache_data with its defaults (no ttl, no max_entries): the memo is keyed by
\* the two uploaded files and an entry, once stored, stays
CacheStore(memo, key, value) == (key :> value) @@ memo

\* ------------------------------------------------------------------ the dashboard

Idx(rows) == 1..Len(rows)

\* Series.nunique(): missing values are not counted
NUnique(rows, col) == Cardinality({rows[i][col] : i \in Idx(rows)} \ {NaN})

\* the group keys of groupby(col) and of pivot_table: rows whose key is missing
\* (na is NaN for a text column, NaT for the date) form no group
GroupKeys(rows, col, na) == {rows[i][col] : i \in Idx(rows)} \ {na}

\* groupby(col).size()
GroupSize(rows, col, na) ==
    [k \in GroupKeys(rows, col, na) |-> Cardinality({i \in Idx(rows) : rows[i][col] = k})]

\* groupby(col)[val].sum()
GroupSum(rows, col, na, val) ==
    [k \in GroupKeys(rows, col, na) |->
        SumSeq([i \in Idx(rows) |-> IF rows[i][col] = k THEN rows[i][val] ELSE 0])]

\* a / b of two numbers, kept as the fraction; den = 0 is a division by zero
Div(a, b) == [num |-> a, den |-> b]

\* Series.mean(): sum / count; the mean of no values (den = 0) is NaN
Mean(f) == Div(SumOver(f, DOMAIN f), Cardinality(DOMAIN f))

\* faulty variant: dropna=False, a missing key is a group of its own
PivotSizeKeepNa(rows, row_col, row_na) ==
    [index |-> {rows[i][row_col] : i \in Idx(rows)},
     columns |-> {rows[i]["Channel"] : i \in Idx(rows)},
     cell |-> [c \in {rows[i][row_col] : i \in Idx(rows)} \X {rows[i]["Channel"] : i \in Idx(rows)} |->
                 Cardinality({i \in Idx(rows) :
                     rows[i][row_col] = c[1] /\ rows[i]["Channel"] = c[2]})]]

\* pivot_table(index=row_col, columns="Channel", aggfunc="size", fill_value=0): only rows
\* with both keys present are counted; a cell with no row is 0
PivotSize(rows, row_col, row_na) ==
    LET kept == SelectSeq(rows, LAMBDA x : x[row_col] # row_na /\ x["Channel"] # NaN) IN
    [index |-> GroupKeys(kept, row_col, row_na),
     columns |-> GroupKeys(kept, "Channel", NaN),
     cell |-> [c \in GroupKeys(kept, row_col, row_na) \X GroupKeys(kept, "Channel", NaN) |->
                 Cardinality({i \in Idx(kept) :
                     kept[i][row_col] = c[1] /\ kept[i]["Channel"] = c[2]})]]

\* faulty variant: the status is compared with the word and not searched for it
IsCancelledExact(row, status_col) ==
    row[status_col] = <<"C", "A", "N", "C", "E", "L", "L", "E", "D">>

\* sales[sales[status_col].str.contains("CANCEL", na=False)]
IsCancelled(row, status_col) == Contains(row[status_col], <<"C", "A", "N", "C", "E", "L">>)

CancelledOrders(r) == SelectSeq(r.sales, LAMBDA x : IsCancelled(x, r.status_col))

\* the rows that are not cancelled, "Order Price" made a number
CompletedSales(r) ==
    LET rows == SelectSeq(r.sales, LAMBDA x : ~IsCancelled(x, r.status_col)) IN
    [i \in Idx(rows) |-> [rows[i] EXCEPT !["Order Price"] = ToNumericFillna0(@)]]

\* faulty variant: the price of an order line is counted once, not once per expanded row
TotalRevenuePerLine(completed_sales) ==
    SumSeq([i \in Idx(completed_sales) |->
        IF \E j \in 1..(i - 1) : completed_sales[j]["index"] = completed_sales[i]["index"]
        THEN 0 ELSE completed_sales[i]["Order Price"]])

TotalRevenue(completed_sales) ==
    SumSeq([i \in Idx(completed_sales) |-> completed_sales[i]["Order Price"]])

\* the five st.metric cards
Kpis(r, cancelled_orders, completed_sales) ==
    [total_orders |-> NUnique(r.sales, r.order_id_col),
     completed |-> NUnique(completed_sales, r.order_id_col),
     cancelled |-> NUnique(cancelled_orders, r.order_id_col),
     units_sold |-> Len(completed_sales),
     net_revenue |-> TotalRevenue(completed_sales)]

\* Series.fillna(0) on "Available (ATP)"
Available(cell) == IF cell = NaN THEN 0 ELSE cell[2]

\* (Total Sold - Available).clip(lower=0)
StockToOrder(total_sold, available) ==
    IF total_sold - available < 0 THEN 0 ELSE total_sold - available

\* faulty variant: how="left", the SKUs only the inventory has are dropped
MergeLeft(sku_sales, inv) ==
    LET line(sku, sold, avail, j) ==
            [SKU |-> sku, TotalSold |-> sold, Available |-> avail,
             StockToOrder |-> StockToOrder(sold, avail), row |-> j]
    IN  {line(inv[j]["Sku Code"], sku_sales[inv[j]["Sku Code"]],
              Available(inv[j]["Available (ATP)"]), j) :
            j \in {j \in Idx(inv) : inv[j]["Sku Code"] \in DOMAIN sku_sales}}
        \cup
        {line(k, sku_sales[k], 0, 0) :
            k \in {k \in DOMAIN sku_sales : \A j \in Idx(inv) : inv[j]["Sku Code"] # k}}

\* pd.merge(sku_sales, inventory, on="SKU", how="outer").fillna(0) with the
\* "Stock To Order" column.  "row" is the inventory line the row came from (0: none):
\* it keeps two inventory lines of equal content apart, as the DataFrame does.
MergeOuter(sku_sales, inv) ==
    LET line(sku, sold, avail, j) ==
            [SKU |-> sku, TotalSold |-> sold, Available |-> avail,
             StockToOrder |-> StockToOrder(sold, avail), row |-> j]
    IN  {line(inv[j]["Sku Code"],
              IF inv[j]["Sku Code"] \in DOMAIN sku_sales
                  THEN sku_sales[inv[j]["Sku Code"]] ELSE 0,
              Available(inv[j]["Available (ATP)"]), j) : j \in Idx(inv)}
        \cup
        {line(k, sku_sales[k], 0, 0) :
            k \in {k \in DOMAIN sku_sales : \A j \in Idx(inv) : inv[j]["Sku Code"] # k}}

\* data[data["Stock To Order"] > 0]
TopStockToOrder(data) == {d \in data : d.StockToOrder > 0}

\* faulty variant: >= 0 for > 0
DeadStockNoStock(data) == {d \in data : d.TotalSold = 0 /\ d.Available >= 0}

\* data[(data["Total Sold"] == 0) & (data["Available (ATP)"] > 0)]
DeadStock(data) == {d \in data : d.TotalSold = 0 /\ d.Available > 0}

\* groupby("Final SKU").agg(count, sum of "Order Price")
SkuQtyVal(completed_sales) ==
    [k \in GroupKeys(completed_sales, "Final SKU", NaN) |->
        [units |-> GroupSize(completed_sales, "Final SKU", NaN)[k],
         revenue |-> GroupSum(completed_sales, "Final SKU", NaN, "Order Price")[k]]]

\* completed_sales["Order Date"] = completed_sales["Uniware Created At"].dt.date
WithOrderDate(completed_sales) ==
    [i \in Idx(completed_sales) |->
        ("Order Date" :> DtDate(completed_sales[i]["Uniware Created At"]))
            @@ completed_sales[i]]

\* groupby("Order Date").size() or groupby("Order Date")["Order Price"].sum()
DailyPlot(dated, metric) ==
    IF metric = "Sale Units"
    THEN GroupSize(dated, "Order Date", NaT)
    ELSE GroupSum(dated, "Order Date", NaT, "Order Price")

\* faulty variant: the guard against a count of 0 is left out
AovUnguarded(completed_sales, order_id_col) ==
    Div(TotalRevenue(completed_sales), NUnique(completed_sales, order_id_col))

\* total_rev_sum / unique_order_count if unique_order_count > 0 else 0
Aov(completed_sales, order_id_col) ==
    LET total_rev_sum == TotalRevenue(completed_sales)
        unique_order_count == NUnique(completed_sales, order_id_col)
    IN  IF unique_order_count > 0 THEN Div(total_rev_sum, unique_order_count) ELSE Div(0, 1)

\* the date x channel pivot with its "Total Units" and "Total Revenue" columns
DailyChannelTable(dated) ==
    LET pivot == PivotSize(dated, "Order Date", NaT)
        daily_rev == GroupSum(dated, "Order Date", NaT, "Order Price")
    IN  [index |-> pivot.index,
         columns |-> pivot.columns,
         cell |-> pivot.cell,
         total_units |-> [d \in pivot.index |->
                            SumOver([c \in pivot.columns |-> pivot.cell[<<d, c>>]], pivot.columns)],
         total_revenue |-> [d \in pivot.index |-> daily_rev[d]]]

\* everything one run of the script renders once process_data has returned r
Dashboard(r, metric) ==
    LET cancelled_orders == CancelledOrders(r)
        completed_sales == CompletedSales(r)
        sku_sales == GroupSize(completed_sales, "Final SKU", NaN)
        data == MergeOuter(sku_sales, r.inv)
        dated == WithOrderDate(completed_sales)
    IN  [kind |-> "dashboard",
         cancelled_orders |-> cancelled_orders,
         completed_sales |-> dated,
         kpi |-> Kpis(r, cancelled_orders, completed_sales),
         sku_sales |-> sku_sales,
         data |-> data,
         stock_to_order |-> TopStockToOrder(data),
         dead_stock |-> DeadStock(data),
         channel_data |-> GroupSize(completed_sales, "Channel", NaN),
         sku_qty_val |-> SkuQtyVal(completed_sales),
         cancelled_sku_channel |-> PivotSize(cancelled_orders, "Final SKU", NaN),
         daily_plot |-> DailyPlot(dated, metric),
         avg_units |-> Mean(GroupSize(dated, "Order Date", NaT)),
         avg_price |-> Mean(GroupSum(dated, "Order Date", NaT, "Order Price")),
         aov |-> Aov(completed_sales, r.order_id_col),
         daily_channel_table |-> DailyChannelTable(dated)]

\* ------------------------------------------------------------------ the files

\* one line of a sales export
SalesRow(order_hdr, status_hdr, order, skus, products, status, channel, ts, price) ==
    (order_hdr :> order) @@ ("Seller SKUs" :> skus) @@ ("Products" :> products)
        @@ (status_hdr :> status) @@ ("Channel" :> channel)
        @@ ("Uniware Created At" :> ts) @@ ("Order Price" :> price)

\* a sales export: its header and its lines
SalesFile(order_hdr, status_hdr, rows) ==
    [columns |-> {order_hdr, status_hdr, "Seller SKUs", "Products", "Channel",
                  "Uniware Created At", "Order Price"},
     rows |-> rows]

\* one line of an inventory export
InvRow(sku_hdr, sku, available) == (sku_hdr :> sku) @@ ("Available (ATP)" :> available)

InvFile(sku_hdr, rows) == [columns |-> {sku_hdr, "Available (ATP)"}, rows |-> rows]

\* the sequences over S of m to n elements
SeqsOf(S, m, n) == UNION {[1..k -> S] : k \in m..n}

Rep(c, n) == [i \in 1..n |-> c]

O1 == <<"O", "1">>

O2 == <<"O", "2">>

Shipped == <<"S", "h", "i", "p", "p", "e", "d">>

CancelledByCustomer ==
    <<"c","a","n","c","e","l","l","e","d"," ","b","y"," ","c","u","s","t","o","m","e","r">>

Amz == <<"A", "M", "Z">>

Flip == <<"F", "L", "I", "P">>

Day1Morning == <<"ts", 1, 9>>

Day1Evening == <<"ts", 1, 17>>

Day2 == <<"ts", 2, 9>>

BadTimestamp == <<"text", 0, 0>>

BadPrice == <<"text", 0>>

PlainInv == InvFile("Sku Code", <<InvRow("Sku Code", <<"X">>, <<"num", 1>>)>>)

\* a line with the usual cells; the specifications vary some of them
Line(order, skus, products, status, channel, ts, price) ==
    SalesRow("Order #", "Order Status", order, skus, products, status, channel, ts, price)

PlainSales(rows) == SalesFile("Order #", "Order Status", rows)

\* SKU cells: one hyphen with a leading blank and a blank token after the comma, a
\* vof- token beside a good one, two hyphens, exactly MaxSkuLen characters, one more,
\* missing
SkuCells ==
    { <<" ", "a", "-", "b", ",", " ">>,
      <<"v", "o", "f", "-", "9", "|", "X">>,
      <<"a", "-", "b", "-", "c">>,
      Rep("a", MaxSkuLen),
      Rep("a", MaxSkuLen + 1),
      NaN }

ProductCells == { <<" ", "W">>, <<" ">>, <<"a", "-", "b", "-", "c">>, NaN }

SkuRows == { Line(O1, s, p, Shipped, Amz, Day1Morning, <<"num", 100>>) :
                s \in SkuCells, p \in ProductCells }

StatusCells ==
    { Shipped, CancelledByCustomer, NaN,
      <<"C", "a", "n", "c", "l">>,
      <<"n", "o", "t", " ", "C", "A", "N", "C", "E", "L", "E", "D">> }

StatusRows == { Line(O1, s, <<"W">>, st, Amz, Day1Morning, <<"num", 100>>) :
                  s \in {<<"X">>, <<"X", "|", "Y">>}, st \in StatusCells }

\* rows for the two matrices: every status with every channel, for two SKUs at two
\* times of one day, for a second day and for a timestamp that does not parse
AggRows ==
    { Line(O1, v[1], <<"W">>, st, ch, v[2], <<"num", 100>>) :
        v \in { <<<<"X">>, Day1Morning>>, <<<<"Y">>, Day1Evening>>,
                <<<<"X">>, Day2>>, <<<<"X">>, BadTimestamp>> },
        st \in {Shipped, CancelledByCustomer},
        ch \in {Amz, NaN} }
    \cup
    { Line(O1, <<"Y">>, <<"W">>, st, Flip, Day1Morning, <<"num", 100>>) :
        st \in {Shipped, CancelledByCustomer} }

InvSalesRows ==
    { Line(O1, <<"X">>, <<"W">>, Shipped, Amz, Day1Morning, <<"num", 100>>),
      Line(O1, <<"X", "|", "X", ",", "X", ",", "X", "|", "X", "|", "X", ",", "X", ",", "X">>, <<"W">>,
           Shipped, Amz, Day1Morning, <<"num", 100>>),
      Line(O1, <<"Y">>, <<"W">>, Shipped, Amz, Day1Morning, <<"num", 100>>),
      Line(O1, <<"X">>, <<"W">>, CancelledByCustomer, Amz, Day1Morning, <<"num", 100>>) }

InvRows ==
    { InvRow("Sku Code", <<"X">>, <<"num", 0>>),
      InvRow("Sku Code", <<"X">>, <<"num", 5>>),
      InvRow("Sku Code", <<"X">>, NaN),
      InvRow("Sku Code", <<"Z">>, <<"num", 2>>) }

RevRows ==
    { Line(o, s, <<"W">>, Shipped, Amz, Day1Morning, p) :
        o \in {O1, O2}, s \in {<<"X">>, <<"X", "|", "Y">>},
        p \in {<<"num", 100>>, <<"num", 250>>, BadPrice} }
    \cup
    { Line(NaN, <<"X">>, <<"W">>, Shipped, Amz, Day1Morning, <<"num", 100>>),
      Line(O1, <<"X">>, <<"W">>, Shipped, Amz, Day1Morning, NaN),
      Line(O1, <<"X">>, <<"W">>, CancelledByCustomer, Amz, Day1Morning, <<"num", 100>>),
      Line(O2, <<"X">>, <<"W">>, Shipped, Amz, Day2, <<"num", 250>>),
      Line(O2, <<"X">>, <<"W">>, Shipped, Amz, BadTimestamp, <<"num", 250>>) }

\* the files of the cache scenario: two exports of each kind, with different headers
CacheSalesFiles ==
    { PlainSales(<<Line(O1, <<"X">>, <<"W">>, Shipped, Amz, Day1Morning, <<"num", 100>>)>>),
      SalesFile(" Order ID", "Status ",
          <<SalesRow(" Order ID", "Status ", O2, <<"v", "o", "f", "-", "9", "|", "X">>,
                     <<"W">>, CancelledByCustomer, Flip, Day2, <<"num", 250>>)>>) }

CacheInvFiles ==
    { PlainInv, InvFile(" Sku Code ", <<InvRow(" Sku Code ", <<"Z">>, <<"num", 2>>)>>) }

\* ------------------------------------------------------------------ the script

\* the two options of the control, and "None" for no option selected (a click on the
\* selected option deselects it)
Metrics == {"Sale Units", "Total Sale Price", "None"}

NoPage == [kind |-> "none"]

InfoPage == [kind |-> "info"]

\* the session starts with both uploaders empty and nothing cached; the script is
\* about to run for the first time
InitSession ==
    /\ inv_file = None
    /\ sales_file = None
    /\ metric_choice = "Sale Units"
    /\ pc = "rerun"
    /\ cache = [k \in {} |-> None]
    /\ ran_body = FALSE
    /\ ret = None
    /\ page = NoPage

\* the user picks, replaces or removes the inventory file; the script re-runs
UploadInventory ==
    /\ pc = "idle"
    /\ \E f \in (disk_inv \cup {None}) \ {inv_file} : inv_file' = f
    /\ pc' = "rerun"
    /\ UNCHANGED <<disk_inv, disk_sales, sales_file, metric_choice, cache, ran_body, ret, page>>

\* the user picks, replaces or removes the sales file; the script re-runs
UploadSales ==
    /\ pc = "idle"
    /\ \E f \in (disk_sales \cup {None}) \ {sales_file} : sales_file' = f
    /\ pc' = "rerun"
    /\ UNCHANGED <<disk_inv, disk_sales, inv_file, metric_choice, cache, ran_body, ret, page>>

\* the user switches the chart metric; the control exists only on the dashboard
SelectMetric ==
    /\ pc = "idle"
    /\ page.kind = "dashboard"
    /\ \E m \in Metrics \ {metric_choice} : metric_choice' = m
    /\ pc' = "rerun"
    /\ UNCHANGED <<disk_inv, disk_sales, inv_file, sales_file, cache, ran_body, ret, page>>

\* the call of process_data finds the pair of files in the memo: the stored value is
\* returned and the body does not run
ProcessDataHit ==
    /\ pc = "rerun"
    /\ inv_file # None /\ sales_file # None
    /\ <<inv_file, sales_file>> \in DOMAIN cache
    /\ ret' = cache[<<inv_file, sales_file>>]
    /\ ran_body' = FALSE
    /\ pc' = "dashboard"
    /\ UNCHANGED <<disk_inv, disk_sales, inv_file, sales_file, metric_choice, cache, page>>

\* the pair of files is not in the memo: the body runs and its result is stored
ProcessDataMiss ==
    /\ pc = "rerun"
    /\ inv_file # None /\ sales_file # None
    /\ <<inv_file, sales_file>> \notin DOMAIN cache
    /\ ret' = process_data_body(inv_file, sales_file)
    /\ cache' = CacheStore(cache, <<inv_file, sales_file>>, ret')
    /\ ran_body' = TRUE
    /\ pc' = "dashboard"
    /\ UNCHANGED <<disk_inv, disk_sales, inv_file, sales_file, metric_choice, page>>

\* lines 75 to 258: the filtered datasets, the KPIs and the four tabs
RenderDashboard ==
    /\ pc = "dashboard"
    /\ page' = Dashboard(ret, metric_choice)
    /\ pc' = "idle"
    /\ UNCHANGED <<disk_inv, disk_sales, inv_file, sales_file, metric_choice, cache, ran_body, ret>>

\* a file is missing: only the hint is shown; the metric control is not drawn and
\* falls back to its default
ShowInfo ==
    /\ pc = "rerun"
    /\ inv_file = None \/ sales_file = None
    /\ page' = InfoPage
    /\ metric_choice' = "Sale Units"
    /\ pc' = "idle"
    /\ UNCHANGED <<disk_inv, disk_sales, inv_file, sales_file, cache, ran_body, ret>>

Next ==
    \/ UploadInventory
    \/ UploadSales
    \/ SelectMetric
    \/ ProcessDataHit
    \/ ProcessDataMiss
    \/ RenderDashboard
    \/ ShowInfo

\* one inventory export and one sales export of SKU cells and product names
InitSku ==
    /\ disk_inv = {PlainInv}
    /\ \E rows \in SeqsOf(SkuRows, 1, MaxRows) : disk_sales = {PlainSales(rows)}
    /\ InitSession

SpecSku == InitSku /\ [][Next]_vars

InitStatus ==
    /\ disk_inv = {PlainInv}
    /\ \E rows \in SeqsOf(StatusRows, 1, MaxRows) : disk_sales = {PlainSales(rows)}
    /\ InitSession

SpecStatus == InitStatus /\ [][Next]_vars

InitAgg ==
    /\ disk_inv = {PlainInv}
    /\ \E rows \in SeqsOf(AggRows, 1, MaxRows) : disk_sales = {PlainSales(rows)}
    /\ InitSession

SpecAgg == InitAgg /\ [][Next]_vars

InitInv ==
    /\ \E rows \in SeqsOf(InvRows, 0, MaxInvRows) : disk_inv = {InvFile("Sku Code", rows)}
    /\ \E rows \in SeqsOf(InvSalesRows, 1, MaxRows) : disk_sales = {PlainSales(rows)}
    /\ InitSession

SpecInv == InitInv /\ [][Next]_vars

InitRev ==
    /\ disk_inv = {PlainInv}
    /\ \E rows \in SeqsOf(RevRows, 1, MaxRows) : disk_sales = {PlainSales(rows)}
    /\ InitSession

SpecRev == InitRev /\ [][Next]_vars

InitCache ==
    /\ disk_inv = CacheInvFiles
    /\ disk_sales = CacheSalesFiles
    /\ InitSession

SpecCache == InitCache /\ [][Next]_vars

\* ------------------------------------------------------------------ the claims

\* the dashboard on the page is the one of the files now in the uploaders
Shown == pc = "idle" /\ page.kind = "dashboard"

\* the line of the uploaded sales file a canonical row came from
RawLine(row) == sales_file.rows[row["index"]]

Hyphens(tok) == Cardinality({i \in 1..Len(tok) : tok[i] = "-"})

\* the malformed-token rule as the specification words it
Malformed(tok) ==
    \/ (Len(tok) >= 4 /\ SubSeq(tok, 1, 4) = <<"v", "o", "f", "-">>)
    \/ Hyphens(tok) > 1
    \/ Len(tok) > 20

\* the trimmed tokens of the SKU cell of a raw line
RawTokens(line) ==
    LET cell == Replace(AsStr(line["Seller SKUs"]), "|", ",")
        parts == Split(cell, ",")
    IN  [j \in 1..Len(parts) |-> Strip(parts[j])]

TrimmedProduct(line) == Strip(AsStr(line["Products"]))

\* the finalSku the specification gives a trimmed token of a raw line
Resolved(line, tok) == IF Malformed(tok) THEN TrimmedProduct(line) ELSE tok

\* the tokens of a raw line whose resolved finalSku is not empty
KeptTokens(line) ==
    {j \in 1..Len(RawTokens(line)) : Resolved(line, RawTokens(line)[j]) # <<>>}

\* C1 as claimed: every canonical row has a non-empty finalSku; a malformed token
\* (vof- prefix, more than one hyphen, more than 20 characters) resolves to the trimmed
\* product name and never to the token itself, any other token resolves to itself.
C1_AsClaimed ==
    Shown =>
        \A i \in Idx(ret.sales) :
            LET row == ret.sales[i]
                tok == row["Seller SKUs"]
            IN  /\ row["Final SKU"] # <<>>
                /\ \E j \in 1..Len(RawTokens(RawLine(row))) : RawTokens(RawLine(row))[j] = tok
                /\ IF Malformed(tok)
                   THEN row["Final SKU"] = TrimmedProduct(RawLine(row))
                        /\ row["Final SKU"] # tok
                   ELSE row["Final SKU"] = tok

\* C1 amended: every canonical row has a non-empty finalSku; a malformed token resolves
\* to the trimmed product name (which is the token only when the product name equals
\* it), any other token, one hyphen or exactly 20 characters included, to itself.
C1_FinalSkuRule ==
    Shown =>
        \A i \in Idx(ret.sales) :
            LET row == ret.sales[i]
                tok == row["Seller SKUs"]
            IN  /\ row["Final SKU"] # <<>>
                /\ \E j \in 1..Len(RawTokens(RawLine(row))) : RawTokens(RawLine(row))[j] = tok
                /\ IF Malformed(tok)
                   THEN row["Final SKU"] = TrimmedProduct(RawLine(row))
                   ELSE row["Final SKU"] = tok

\* a vof- token resolved to the product name beside a one-hyphen token kept as it is
C1_Witness ==
    /\ Shown
    /\ \E i \in Idx(ret.sales) :
          /\ ret.sales[i]["Seller SKUs"] = <<"v", "o", "f", "-", "9">>
          /\ ret.sales[i]["Final SKU"] = <<"W">>
    /\ \E i \in Idx(ret.sales) :
          /\ ret.sales[i]["Seller SKUs"] = <<"a", "-", "b">>
          /\ ret.sales[i]["Final SKU"] = <<"a", "-", "b">>

\* the canonical rows that came from line i of the sales file
RowsOfLine(i) == {n \in Idx(ret.sales) : ret.sales[n]["index"] = i}

\* C2 as claimed: the canonical rows are never fewer than the raw sales rows.
C2_AsClaimed == Shown => Len(ret.sales) >= Len(sales_file.rows)

\* C2 amended: a raw row yields one canonical row per token whose resolved finalSku is
\* not empty, so the canonical rows are never fewer than the raw rows that have such a
\* token; a raw row with none is lost.
C2_RowsPerKeptToken ==
    Shown =>
        /\ \A i \in Idx(sales_file.rows) :
              Cardinality(RowsOfLine(i)) = Cardinality(KeptTokens(sales_file.rows[i]))
        /\ Len(ret.sales) >=
              Cardinality({i \in Idx(sales_file.rows) : KeptTokens(sales_file.rows[i]) # {}})

\* a two-line file of which one line kept two tokens and the other was lost
C2_Witness ==
    /\ Shown
    /\ Len(sales_file.rows) = 2
    /\ \E i \in Idx(sales_file.rows) : Cardinality(RowsOfLine(i)) = 2
    /\ \E i \in Idx(sales_file.rows) : RowsOfLine(i) = {}

\* the status text of a raw line, upper-cased, contains CANCEL
LineCancelled(line) ==
    LET st == AsStr(line["Order Status"])
        up == [i \in 1..Len(st) |-> UpperChar(st[i])]
    IN  \E i \in 1..(Len(up) - 5) : SubSeq(up, i, i + 5) = <<"C", "A", "N", "C", "E", "L">>

RawCancelled(row) == LineCancelled(RawLine(row))

\* the columns that tell one canonical row from another
Core(row) ==
    [c \in {"index", "Seller SKUs", "Final SKU", "Channel"} |-> row[c]]

CoreSeq(rows) == [i \in Idx(rows) |-> Core(rows[i])]

\* C3: the Cancelled rows are exactly the canonical rows whose upper-cased status
\* contains CANCEL and the Completed rows are exactly the others: each canonical row is
\* in one of the two and in no more than one.
C3_Partition ==
    Shown =>
        /\ CoreSeq(page.cancelled_orders) =
              CoreSeq(SelectSeq(ret.sales, LAMBDA x : RawCancelled(x)))
        /\ CoreSeq(page.completed_sales) =
              CoreSeq(SelectSeq(ret.sales, LAMBDA x : ~RawCancelled(x)))
        /\ Len(page.cancelled_orders) + Len(page.completed_sales) = Len(ret.sales)
        /\ \A i \in Idx(page.cancelled_orders) : RawCancelled(page.cancelled_orders[i])
        /\ \A i \in Idx(page.completed_sales) : ~RawCancelled(page.completed_sales[i])

\* "cancelled by customer" is Cancelled and "Shipped" is Completed, in one file
C3_Witness ==
    /\ Shown
    /\ \E i \in Idx(page.cancelled_orders) :
          RawLine(page.cancelled_orders[i])["Order Status"] = CancelledByCustomer
    /\ \E i \in Idx(page.completed_sales) :
          RawLine(page.completed_sales[i])["Order Status"] = Shipped

\* the Completed units of a SKU, counted from the canonical rows
UnitsSold(sku) ==
    Cardinality({i \in Idx(ret.sales) :
        ret.sales[i]["Final SKU"] = sku /\ ~RawCancelled(ret.sales[i])})

SoldSkus == {ret.sales[i]["Final SKU"] : i \in {n \in Idx(ret.sales) : ~RawCancelled(ret.sales[n])}}

InventorySkus == {inv_file.rows[j]["Sku Code"] : j \in Idx(inv_file.rows)}

\* the stock of an inventory line (0 when missing), or 0 for no line
StockOfLine(j) ==
    IF j = 0 \/ inv_file.rows[j]["Available (ATP)"] = NaN
    THEN 0 ELSE inv_file.rows[j]["Available (ATP)"][2]

Max0(n) == IF n > 0 THEN n ELSE 0

\* C4: every SKU sold in a Completed row or listed in the inventory has a row in the
\* reconciled table, every inventory line has its row, the missing side is 0, and in
\* every row stockToOrder = max(0, unitsSold - available), never negative.
C4_Reconciled ==
    Shown =>
        /\ \A sku \in SoldSkus \cup InventorySkus : \E d \in page.data : d.SKU = sku
        /\ \A j \in Idx(inv_file.rows) :
              \E d \in page.data : d.row = j /\ d.SKU = inv_file.rows[j]["Sku Code"]
        /\ \A d \in page.data :
              /\ d.SKU \in SoldSkus \cup InventorySkus
              /\ d.TotalSold = UnitsSold(d.SKU)
              /\ d.Available = StockOfLine(d.row)
              /\ d.row = 0 => d.SKU \notin InventorySkus
              /\ d.StockToOrder = Max0(d.TotalSold - d.Available)
              /\ d.StockToOrder >= 0

\* 5 available and 8 Completed units give 3, beside a SKU only the inventory has and a
\* SKU only the sales have
C4_Witness ==
    /\ Shown
    /\ \E d \in page.data : d.Available = 5 /\ d.TotalSold = 8 /\ d.StockToOrder = 3
    /\ \E d \in page.data : d.SKU \notin SoldSkus /\ d.TotalSold = 0
    /\ SoldSkus \ InventorySkus # {}

\* C5: a row of the reconciled table is in the dead-stock table exactly when it has no
\* Completed unit sold and stock above 0; no SKU is in both the dead-stock and the
\* stock-to-order table.
C5_DeadStock ==
    Shown =>
        /\ page.dead_stock \subseteq page.data
        /\ \A d \in page.data :
              d \in page.dead_stock <=> (UnitsSold(d.SKU) = 0 /\ StockOfLine(d.row) > 0)
        /\ \A d \in page.dead_stock : ~(d.TotalSold > 0) /\ ~(d.Available <= 0)
        /\ {d.SKU : d \in page.dead_stock} \cap {d.SKU : d \in page.stock_to_order} = {}

\* a dead SKU beside a SKU to order, and a SKU with stock that is not dead because it sold
C5_Witness ==
    /\ Shown
    /\ page.dead_stock # {}
    /\ page.stock_to_order # {}
    /\ \E d \in page.data : d.Available > 0 /\ d.TotalSold > 0 /\ d \notin page.dead_stock

CellSum(pivot) == SumOver(pivot.cell, DOMAIN pivot.cell)

RawChannelGiven(row) == RawLine(row)["Channel"] # NaN

RawTimestampParses(row) == RawLine(row)["Uniware Created At"][1] = "ts"

\* C6 as claimed: the cells of the cancellation matrix sum to the number of Cancelled
\* rows and the channel cells of the daily x channel matrix to the number of Completed
\* rows, a missing channel or an unparseable timestamp notwithstanding.
C6_AsClaimed ==
    Shown =>
        /\ CellSum(page.cancelled_sku_channel) = Len(page.cancelled_orders)
        /\ CellSum(page.daily_channel_table) = Len(page.completed_sales)

\* C6 amended: the cells of the cancellation matrix sum to the number of Cancelled rows
\* that have a channel, and the channel cells of the daily x channel matrix, like its
\* total-units column, to the number of Completed rows that have a channel and a
\* timestamp that parses.
C6_CellSums ==
    Shown =>
        /\ CellSum(page.cancelled_sku_channel) =
              Len(SelectSeq(page.cancelled_orders, LAMBDA x : RawChannelGiven(x)))
        /\ CellSum(page.daily_channel_table) =
              Len(SelectSeq(page.completed_sales,
                            LAMBDA x : RawChannelGiven(x) /\ RawTimestampParses(x)))
        /\ SumOver(page.daily_channel_table.total_units, page.daily_channel_table.index) =
              CellSum(page.daily_channel_table)

\* one Cancelled row in the cancellation matrix and one Completed row in the daily matrix
C6_Witness ==
    /\ Shown
    /\ Len(page.cancelled_orders) = 1
    /\ CellSum(page.cancelled_sku_channel) = 1
    /\ Len(page.completed_sales) = 1
    /\ CellSum(page.daily_channel_table) = 1

\* the Completed rows whose timestamp does not parse
Undated == SelectSeq(page.completed_sales, LAMBDA x : ~RawTimestampParses(x))

\* the Completed rows whose timestamp parses
Dated == SelectSeq(page.completed_sales, LAMBDA x : RawTimestampParses(x))

DayOf(row) == <<"date", RawLine(row)["Uniware Created At"][2], 0>>

Days == {DayOf(Dated[i]) : i \in Idx(Dated)}

DatedOn(d) == SelectSeq(Dated, LAMBDA x : DayOf(x) = d)

PricesOf(rows) ==
    [i \in Idx(rows) |->
        IF RawLine(rows[i])["Order Price"][1] = "num"
        THEN RawLine(rows[i])["Order Price"][2] ELSE 0]

\* C9: a Completed row whose timestamp does not parse has the null date; the daily
\* series, the daily averages and the daily x channel matrix with its total columns are
\* made of the dated rows alone; the SKU totals, the channel mix, the units-sold KPI and
\* the reconciled table count the undated rows like the others.
C9_UndatedRows ==
    Shown =>
        /\ \A i \in Idx(page.completed_sales) :
              page.completed_sales[i]["Order Date"] =
                  IF RawTimestampParses(page.completed_sales[i])
                  THEN DayOf(page.completed_sales[i]) ELSE NaT
        /\ DOMAIN page.daily_plot = Days
        /\ \A d \in Days :
              page.daily_plot[d] =
                  IF metric_choice = "Sale Units"
                  THEN Len(DatedOn(d)) ELSE SumSeq(PricesOf(DatedOn(d)))
        /\ page.avg_units = [num |-> Len(Dated), den |-> Cardinality(Days)]
        /\ page.avg_price = [num |-> SumSeq(PricesOf(Dated)), den |-> Cardinality(Days)]
        /\ page.daily_channel_table.index \subseteq Days
        /\ \A d \in page.daily_channel_table.index :
              /\ page.daily_channel_table.total_units[d] =
                    Len(SelectSeq(DatedOn(d), LAMBDA x : RawChannelGiven(x)))
              /\ page.daily_channel_table.total_revenue[d] = SumSeq(PricesOf(DatedOn(d)))
        /\ page.kpi.units_sold = Len(page.completed_sales)
        /\ \A sku \in SoldSkus :
              /\ page.sku_sales[sku] = UnitsSold(sku)
              /\ page.sku_qty_val[sku].units = UnitsSold(sku)
              /\ \E d \in page.data : d.SKU = sku /\ d.TotalSold = UnitsSold(sku)
        /\ \A ch \in DOMAIN page.channel_data :
              page.channel_data[ch] =
                  Len(SelectSeq(page.completed_sales, LAMBDA x : RawLine(x)["Channel"] = ch))
        /\ \A i \in Idx(page.completed_sales) :
              RawChannelGiven(page.completed_sales[i]) =>
                  RawLine(page.completed_sales[i])["Channel"] \in DOMAIN page.channel_data

\* a dated and an undated Completed row of one SKU and channel: the day has one unit,
\* the SKU and the channel have two
C9_Witness ==
    /\ Shown
    /\ Len(Dated) = 1 /\ Len(Undated) = 1
    /\ \E d \in DOMAIN page.daily_plot : page.daily_plot[d] = 1
    /\ page.kpi.units_sold = 2
    /\ \E sku \in DOMAIN page.sku_sales : page.sku_sales[sku] = 2
    /\ \E ch \in DOMAIN page.channel_data : page.channel_data[ch] = 2

\* the distinct order identifiers among the Completed rows, a missing one not counted
CompletedOrderIds ==
    {RawLine(page.completed_sales[i])["Order #"] : i \in Idx(page.completed_sales)} \ {NaN}

\* C7: the average order value is the Completed revenue over the number of distinct
\* order identifiers among the Completed rows, and is 0, with no division by zero, when
\* that number is 0.
C7_Aov ==
    Shown =>
        /\ page.aov.den # 0
        /\ page.aov =
              IF Cardinality(CompletedOrderIds) > 0
              THEN [num |-> SumSeq(PricesOf(page.completed_sales)),
                    den |-> Cardinality(CompletedOrderIds)]
              ELSE [num |-> 0, den |-> 1]

\* every row is Cancelled: no Completed row at all, and the value is 0
C7_Witness ==
    /\ Shown
    /\ page.completed_sales = <<>>
    /\ page.cancelled_orders # <<>>
    /\ page.aov = [num |-> 0, den |-> 1]

\* the price of a raw line as a number, 0 when it is missing or no number
LinePrice(line) == IF line["Order Price"][1] = "num" THEN line["Order Price"][2] ELSE 0

\* C10: a Completed raw line that expands to k kept canonical rows adds k times its price
\* to net revenue and k to units sold, a price that is missing or no number counting as
\* 0; the per-SKU and per-date revenues are the sums of the price over their Completed
\* canonical rows.
C10_Revenue ==
    Shown =>
        /\ page.kpi.net_revenue =
              SumSeq([i \in Idx(sales_file.rows) |->
                  IF LineCancelled(sales_file.rows[i]) THEN 0
                  ELSE Cardinality(RowsOfLine(i)) * LinePrice(sales_file.rows[i])])
        /\ page.kpi.units_sold =
              SumSeq([i \in Idx(sales_file.rows) |->
                  IF LineCancelled(sales_file.rows[i]) THEN 0
                  ELSE Cardinality(RowsOfLine(i))])
        /\ DOMAIN page.sku_qty_val = SoldSkus
        /\ \A sku \in SoldSkus :
              page.sku_qty_val[sku].revenue =
                  SumSeq(PricesOf(SelectSeq(page.completed_sales,
                                            LAMBDA x : x["Final SKU"] = sku)))
        /\ DOMAIN page.daily_channel_table.total_revenue = Days
        /\ \A d \in Days :
              page.daily_channel_table.total_revenue[d] = SumSeq(PricesOf(DatedOn(d)))

\* a line of two SKUs at 100 and a line whose price is no number: 200 for three units
C10_Witness ==
    /\ Shown
    /\ \E i \in Idx(sales_file.rows) :
          /\ Cardinality(RowsOfLine(i)) = 2
          /\ sales_file.rows[i]["Order Price"] = <<"num", 100>>
    /\ \E i \in Idx(sales_file.rows) : sales_file.rows[i]["Order Price"] = BadPrice
    /\ page.kpi.units_sold = 3
    /\ page.kpi.net_revenue = 200

====
